---- MODULE Spec2Model ----
(***************************************************************************)
(* A model of gippy/data/core.py: the Data base class (per-date dataset),  *)
(* DataInventory (date-indexed inventory, processing loop, link creation)  *)
(* and the module-level link() helper.                                     *)
(*                                                                         *)
(* Five specifications share the module, one per part of the program:      *)
(*   Spec         DataInventory.__init__ (temporal_extent + AddData)       *)
(*   SpecTiles    Data.vector2tiles                                        *)
(*   SpecData     Data.__init__, Data.filename, Data.get_products          *)
(*   SpecProcess  DataInventory.process as driven by main()                *)
(*   SpecLink     DataInventory.createlinks and link()                     *)
(* Each specification leaves the variables of the other parts untouched.   *)
(***************************************************************************)
EXTENDS Integers, Sequences, FiniteSets, TLC

VARIABLES
    \* ---- DataInventory construction
    disk,       \* the archive: tile -> [exists, names], names in os.listdir order
    args,       \* the arguments of the last DataInventory(...) call
    inv,        \* the DataInventory object the call produced (or how far it got)
    listed,     \* the tiles whose directory the call listed, in order
    \* ---- Data.vector2tiles
    grid,       \* features of the tile layer that pass the spatial filter
    region_area,\* geom.area of the region
    coverage,   \* what vector2tiles returned (or raised)
    \* ---- Data object
    dat,        \* a Data instance: its tiles mapping and its products mapping
    ret,        \* what the last query on dat returned (or raised)
    \* ---- DataInventory.process
    pinv,       \* an inventory: sorted dates and each date's product mapping
    proc,       \* the position of main()'s process command
    \* ---- DataInventory.createlinks
    linkfiles,  \* the inventory's product files, in createlinks' iteration order
    sidecars,   \* the product files whose .aux.xml exists on disk
    cwd,        \* the working directory: link name -> the file it links to
    hist        \* the createlinks calls made so far

vars == <<disk, args, inv, listed, grid, region_area, coverage, dat, ret,
          pinv, proc, linkfiles, sidecars, cwd, hist>>

invVars  == <<disk, args, inv, listed>>
tileVars == <<grid, region_area, coverage>>
dataVars == <<dat, ret>>
procVars == <<pinv, proc>>
linkVars == <<linkfiles, sidecars, cwd, hist>>

(***************************************************************************)
(* Bounds of the model.                                                    *)
(***************************************************************************)
\* the longest directory listing of one tile
MaxListing == 2
\* the most features of the tile layer that pass the spatial filter
MaxFeatures == 2
\* the most dates of the inventory that process() runs over
MaxDates == 3
\* the most product files createlinks() iterates over
MaxProducts == 2

(***************************************************************************)
(* Generic helpers.                                                        *)
(***************************************************************************)
Range(s) == {s[i] : i \in DOMAIN s}

\* sequences over S without repetition, of length at most n
RECURSIVE InjSeqs(_, _)
InjSeqs(S, n) ==
    IF n = 0 THEN {<<>>}
    ELSE LET shorter == InjSeqs(S, n - 1)
         IN  shorter \cup
             UNION {{Append(s, x) : x \in S \ Range(s)} :
                        s \in {q \in shorter : Len(q) = n - 1}}

\* all sequences over S of length at most n
RECURSIVE SeqsUpTo(_, _)
SeqsUpTo(S, n) ==
    IF n = 0 THEN {<<>>}
    ELSE LET shorter == SeqsUpTo(S, n - 1)
         IN  shorter \cup {Append(s, x) : s \in {q \in shorter : Len(q) = n - 1}, x \in S}

(***************************************************************************)
(* Dates.  A date directory is named by a %Y field and a %j field          *)
(* ("2020045" is [Y |-> 2020, j |-> 45]); a datetime.date is kept as its   *)
(* year and its day of the year.                                           *)
(***************************************************************************)
Leap(y) == (y % 4 = 0) /\ ((y % 100 # 0) \/ (y % 400 = 0))

DaysIn(y) == IF Leap(y) THEN 366 ELSE 365

NoDate == [year |-> 0, doy |-> 0]

\* datetime.datetime.strptime(name, '%Y%j').date(): %j matches 001..366 only,
\* and the date is January 1st of %Y plus (%j - 1) days, so day 366 of a
\* common year is January 1st of the next year.
strptime(name) ==
    IF name.j < 1 \/ name.j > 366
      THEN [ok |-> FALSE, date |-> NoDate]
      ELSE IF name.j > DaysIn(name.Y)
             THEN [ok |-> TRUE, date |-> [year |-> name.Y + 1, doy |-> name.j - DaysIn(name.Y)]]
             ELSE [ok |-> TRUE, date |-> [year |-> name.Y, doy |-> name.j]]

\* int(date.strftime('%j'))
strftime_j(date) == date.doy

\* datetime.date comparison
DateLE(a, b) == a.year < b.year \/ (a.year = b.year /\ a.doy <= b.doy)

DateLT(a, b) == DateLE(a, b) /\ a # b

\* sorted(...) over dates
RECURSIVE SetToSeq(_)
SetToSeq(S) ==
    IF S = {} THEN <<>>
    ELSE LET x == CHOOSE y \in S : TRUE IN <<x>> \o SetToSeq(S \ {x})

sorted(S) == SortSeq(SetToSeq(S), DateLT)

(***************************************************************************)
(* The archive and the constructor's arguments.                            *)
(***************************************************************************)
Tiles == {"A", "B"}

DirNames ==
    { [Y |-> 2019, j |-> 20], [Y |-> 2019, j |-> 366], [Y |-> 2020, j |-> 1],
      [Y |-> 2020, j |-> 45], [Y |-> 2020, j |-> 150], [Y |-> 2020, j |-> 0] }

NoDir == [exists |-> FALSE, names |-> <<>>]

Listings == {NoDir} \cup {[exists |-> TRUE, names |-> s] : s \in InjSeqs(DirNames, MaxListing)}

\* -t/--tiles: the explicit tile designations
TilesArgs == {<<"A">>, <<"A", "B">>, <<"B", "A">>}

\* -d/--dates: None, or a "start,end" string
DatesArgs == {"None", "2020-01-01,2020-12-31"}

\* --days: the text split at its commas, each field the integer int() reads
\* from it; <<>> is the absent (None or empty) argument
DaysArgs == {<<>>, <<1, 90>>, <<350, 10>>, <<0, 400>>, <<45>>}

\* agspy.utils.dateparse.range on the strings of DatesArgs
dateparse_range(s) ==
    IF s = "2020-01-01,2020-12-31"
      THEN <<[year |-> 2020, doy |-> 1], [year |-> 2020, doy |-> 366]>>
      ELSE <<[year |-> 1984, doy |-> 1], [year |-> 2050, doy |-> 365]>>

(***************************************************************************)
(* class Data.  A dict is a function; {} is the function of empty domain.  *)
(***************************************************************************)
EmptyDict == [k \in {} |-> k]

\* the product keys, in lexicographic order
ProductNames == <<"ndvi", "product", "toaref">>

Products == Range(ProductNames)

\* the file of a product of a tile, and of a mosaic product
TilePath(t, p) == [tile |-> t, product |-> p]

MosaicPath(p) == [tile |-> "mosaic", product |-> p]

NoPath == [tile |-> "", product |-> ""]

\* Data.__init__ with explicit tiles: tile_coverage = dict((t,1) for t in tiles),
\* self.tiles[t] = {} for each of its keys, self.products = {}
Data__init__(tiles, date) ==
    [ tile_coverage |-> [t \in Range(tiles) |-> 1],
      tiles         |-> [t \in Range(tiles) |-> EmptyDict],
      date          |-> date,
      products      |-> EmptyDict ]

\* Data.filename(product, tile): a missing key of any of the dicts is a KeyError
filename(self, product, tile) ==
    IF tile # "None"
      THEN IF /\ tile \in DOMAIN self.tiles
              /\ "products" \in DOMAIN self.tiles[tile]
              /\ product \in DOMAIN self.tiles[tile].products
             THEN [raised |-> "none", value |-> self.tiles[tile].products[product]]
             ELSE [raised |-> "KeyError", value |-> NoPath]
      ELSE IF "product" \in DOMAIN self.products
             THEN [raised |-> "none", value |-> self.products["product"]]
             ELSE [raised |-> "KeyError", value |-> NoPath]

\* sorted(set(products)) over product keys
sorted_names(S) == SelectSeq(ProductNames, LAMBDA p : p \in S)

\* Data.get_products: self.tiles[t]['products'].keys() of every tile
get_products(self) ==
    IF \E t \in DOMAIN self.tiles : "products" \notin DOMAIN self.tiles[t]
      THEN [raised |-> "KeyError", value |-> <<>>]
      ELSE [raised |-> "none",
            value  |-> sorted_names(UNION {DOMAIN self.tiles[t].products : t \in DOMAIN self.tiles})]

(***************************************************************************)
(* class DataInventory: construction.                                      *)
(***************************************************************************)
NoArgs == [tiles |-> <<>>, dates |-> "None", days |-> <<>>]

\* no DataInventory object yet
NoInv ==
    [ stage |-> "none", raised |-> "none", tiles |-> <<>>,
      start_date |-> NoDate, end_date |-> NoDate, start_day |-> 0, end_day |-> 0,
      data |-> EmptyDict, numfiles |-> 0 ]

\* DataInventory.temporal_extent: days[1] of a one-field text is an IndexError
temporal_extent(self, dates, days) ==
    LET ds    == IF dates = "None" THEN "1984,2050" ELSE dates
        range == dateparse_range(ds)
        dd    == IF days # <<>> THEN days ELSE <<1, 366>>
        self1 == [self EXCEPT !.start_date = range[1], !.end_date = range[2]]
    IN  IF Len(dd) < 2
          THEN [self1 EXCEPT !.raised = "IndexError"]
          ELSE [self1 EXCEPT !.start_day = dd[1], !.end_day = dd[2], !.stage = "extent"]

\* a mutant of contains: the day-of-year interval open at its start
contains_open(self, date) ==
    LET day == strftime_j(date)
    IN  /\ DateLE(self.start_date, date) /\ DateLE(date, self.end_date)
        /\ self.start_day < day /\ day <= self.end_day

\* the test of AddData's inner loop
contains(self, date) ==
    LET day == strftime_j(date)
    IN  /\ DateLE(self.start_date, date) /\ DateLE(date, self.end_date)
        /\ self.start_day <= day /\ day <= self.end_day

\* Data.find_dates(tile): os.listdir of a missing directory is an OSError, a
\* name strptime rejects a ValueError
find_dates(d, tile) ==
    LET names == d[tile].names
    IN  IF ~d[tile].exists
          THEN [raised |-> "OSError", dates |-> <<>>]
          ELSE IF \E i \in DOMAIN names : ~strptime(names[i]).ok
                 THEN [raised |-> "ValueError", dates |-> <<>>]
                 ELSE [raised |-> "none",
                       dates  |-> [i \in DOMAIN names |-> strptime(names[i]).date]]

\* AddData's inner loop over the dates of one tile, from the k-th on
RECURSIVE AppendMatching(_, _, _, _)
AppendMatching(self, found, k, dates) ==
    IF k > Len(found) THEN dates
    ELSE AppendMatching(self, found, k + 1,
            IF contains(self, found[k]) /\ found[k] \notin Range(dates)
              THEN Append(dates, found[k]) ELSE dates)

\* a mutant of TileDates: the list of dates is emptied for every tile
TileDates_reset(self, found, dates) == AppendMatching(self, found, 1, <<>>)

\* the body of AddData's loop over the tiles, for one tile's dates
TileDates(self, found, dates) == AppendMatching(self, found, 1, dates)

\* AddData's loop over self.tiles, from the i-th on; an exception of find_dates
\* leaves the loop
RECURSIVE ScanTiles(_, _, _, _, _)
ScanTiles(self, d, i, dates, seen) ==
    IF i > Len(self.tiles) THEN [raised |-> "none", dates |-> dates, listed |-> seen]
    ELSE LET t == self.tiles[i]
             r == find_dates(d, t)
         IN  IF r.raised = "OSError"
               THEN [raised |-> r.raised, dates |-> dates, listed |-> seen]
               ELSE IF r.raised # "none"
                 THEN [raised |-> r.raised, dates |-> dates, listed |-> Append(seen, t)]
                 ELSE ScanTiles(self, d, i + 1, TileDates(self, r.dates, dates), Append(seen, t))

\* the datasets AddData builds, one per date of sorted(dates)
RECURSIVE BuildData(_, _, _)
BuildData(self, sdates, k) ==
    IF k > Len(sdates) THEN [data |-> EmptyDict, numfiles |-> 0]
    ELSE LET rest == BuildData(self, sdates, k + 1)
             ds   == Data__init__(self.tiles, sdates[k])
         IN  [data     |-> [x \in DOMAIN rest.data \cup {sdates[k]} |->
                               IF x = sdates[k] THEN ds ELSE rest.data[x]],
              numfiles |-> rest.numfiles + Cardinality(DOMAIN ds.tiles)]

\* DataInventory.AddData with explicit tiles
AddData(self, d) ==
    LET scan == ScanTiles(self, d, 1, <<>>, <<>>)
        built == BuildData(self, sorted(Range(scan.dates)), 1)
    IN  IF scan.raised # "none"
          THEN [self |-> [self EXCEPT !.raised = scan.raised], listed |-> scan.listed]
          ELSE [self |-> [self EXCEPT !.data = built.data, !.numfiles = built.numfiles,
                                      !.stage = "data"],
                listed |-> scan.listed]

\* DataInventory.__init__
DataInventory__init__(d, tiles, dates, days) ==
    LET self0 == [NoInv EXCEPT !.stage = "new", !.tiles = tiles]
        self1 == temporal_extent(self0, dates, days)
    IN  IF self1.raised # "none"
          THEN [self |-> self1, listed |-> <<>>]
          ELSE AddData(self1, d)

\* the dates property
dates(self) == sorted(DOMAIN self.data)

\* the numdates property
numdates(self) == Cardinality(DOMAIN self.data)

\* ---- the specification of the construction
InvIdle  == args = NoArgs /\ inv = NoInv /\ listed = <<>> /\ disk = [t \in Tiles |-> NoDir]

\* Data.inventory(...): main() builds the inventory over the archive as it
\* is.  Every construction starts from a fresh object, so one construction per
\* behaviour shows all of them.
Construct ==
    /\ inv.stage = "none"
    /\ \E t \in TilesArgs, ds \in DatesArgs, dy \in DaysArgs :
          LET r == DataInventory__init__(disk, t, ds, dy)
          IN  /\ args' = [tiles |-> t, dates |-> ds, days |-> dy]
              /\ inv' = r.self
              /\ listed' = r.listed
    /\ UNCHANGED <<disk, tileVars, dataVars, procVars, linkVars>>

(***************************************************************************)
(* Data.vector2tiles.  A feature of the tile layer is the text str() makes *)
(* of its attribute field (a sequence of digits) and the area of its       *)
(* intersection with the region.                                           *)
(***************************************************************************)
TileFields == { <<1, 0, 0, 1>>, <<1, 2, 0, 3, 0>>, <<0, 1, 2, 0, 3, 0>>, <<0, 1, 2, 0, 3, 1>> }

Features == [field : TileFields, area : 0..2]

NoCoverage == [raised |-> "unset", tiles |-> EmptyDict]

\* tile = str(feat.GetField(fldindex)); if len(tile) == 5: tile = '0' + tile
tile_key(field) == IF Len(field) = 5 THEN <<0>> \o field ELSE field

\* area/geom.area, kept as the fraction
weight(area, garea) == [num |-> area, den |-> garea]

\* the while loop of vector2tiles, from the k-th feature on
RECURSIVE CoverLoop(_, _, _, _)
CoverLoop(feats, k, tiles, garea) ==
    IF k > Len(feats) THEN tiles
    ELSE LET feat == feats[k]
             tile == tile_key(feat.field)
         IN  CoverLoop(feats, k + 1,
                IF feat.area # 0
                  THEN [x \in DOMAIN tiles \cup {tile} |->
                           IF x = tile THEN weight(feat.area, garea) ELSE tiles[x]]
                  ELSE tiles,
                garea)

\* Data.vector2tiles over the features the spatial filter keeps: with none,
\* GetNextFeature() is None and feat.GetFieldIndex is an AttributeError
vector2tiles(feats, garea) ==
    IF feats = <<>>
      THEN [raised |-> "AttributeError", tiles |-> EmptyDict]
      ELSE [raised |-> "none", tiles |-> CoverLoop(feats, 1, EmptyDict, garea)]

TileIdle == grid = <<>> /\ region_area = 0 /\ coverage = NoCoverage

Vector2Tiles ==
    /\ coverage' = vector2tiles(grid, region_area)
    /\ UNCHANGED <<grid, region_area, invVars, dataVars, procVars, linkVars>>

(***************************************************************************)
(* The Data object of one date: product discovery and the two queries.     *)
(***************************************************************************)
NoRet == [op |-> "none", product |-> "", tile |-> "", raised |-> "none"]

DataIdle == dat = Data__init__(<<>>, NoDate) /\ ret = NoRet

\* a sensor's subclass records the products found on disk for tile t
DiscoverProducts ==
    /\ \E t \in DOMAIN dat.tiles, S \in SUBSET Products :
          dat' = [dat EXCEPT !.tiles[t] = [products |-> [p \in S |-> TilePath(t, p)]]]
    /\ ret' = NoRet
    /\ UNCHANGED <<invVars, tileVars, procVars, linkVars>>

\* a sensor's subclass records the mosaic products of the date
RecordMosaic ==
    /\ \E S \in SUBSET Products : dat' = [dat EXCEPT !.products = [p \in S |-> MosaicPath(p)]]
    /\ ret' = NoRet
    /\ UNCHANGED <<invVars, tileVars, procVars, linkVars>>

Filename ==
    /\ \E p \in Products, t \in Tiles \cup {"None"} :
          LET r == filename(dat, p, t)
          IN  ret' = [op |-> "filename", product |-> p, tile |-> t,
                      raised |-> r.raised, path |-> r.value]
    /\ UNCHANGED <<dat, invVars, tileVars, procVars, linkVars>>

GetProducts ==
    /\ LET r == get_products(dat)
       IN  ret' = [op |-> "get_products", product |-> "", tile |-> "",
                   raised |-> r.raised, names |-> r.value]
    /\ UNCHANGED <<dat, invVars, tileVars, procVars, linkVars>>

(***************************************************************************)
(* DataInventory.process, called by main()'s process command.  The k-th    *)
(* date of the inventory, in ascending order, is k; an inventory holds one *)
(* dataset (one sensor) per date.                                          *)
(***************************************************************************)
ProcIdleRec == [status |-> "idle", pc |-> 0, requested |-> {}, invoked |-> <<>>, errors |-> 0]

ProcIdle == pinv = [n |-> 0, products |-> <<>>] /\ proc = ProcIdleRec

\* main(): args.command == 'process'; inv.process prints the request and
\* enters its loop over self.dates
ProcessBegin ==
    /\ proc.status = "idle"
    /\ \E req \in {{"toaref"}, {"ndvi", "toaref"}} :
          proc' = [proc EXCEPT !.status = "running", !.pc = 1, !.requested = req]
    /\ UNCHANGED <<pinv, invVars, tileVars, dataVars, linkVars>>

\* self.data[date][sensor].process(...) returns: the sensor's subclass (not
\* part of core.py) has recorded the products it made in the dataset
ProcessDataset ==
    /\ proc.status = "running" /\ proc.pc <= pinv.n
    /\ pinv' = [pinv EXCEPT !.products[proc.pc] = @ \cup proc.requested]
    /\ proc' = [proc EXCEPT !.invoked = Append(@, proc.pc), !.pc = @ + 1]
    /\ UNCHANGED <<invVars, tileVars, dataVars, linkVars>>

\* self.data[date][sensor].process(...) raises: process() has no handler, the
\* exception leaves both loops and main() prints 'Error processing'
ProcessRaise ==
    /\ proc.status = "running" /\ proc.pc <= pinv.n
    /\ proc' = [proc EXCEPT !.invoked = Append(@, proc.pc), !.status = "aborted",
                            !.errors = @ + 1]
    /\ UNCHANGED <<pinv, invVars, tileVars, dataVars, linkVars>>

\* the loop is over: 'Completed processing'
ProcessEnd ==
    /\ proc.status = "running" /\ proc.pc > pinv.n
    /\ proc' = [proc EXCEPT !.status = "completed"]
    /\ UNCHANGED <<pinv, invVars, tileVars, dataVars, linkVars>>

(***************************************************************************)
(* link() and DataInventory.createlinks.  A file is its directory, its     *)
(* base name and whether it is the '.aux.xml' sidecar of that name; a name *)
(* of the working directory is a base name with or without '.aux.xml'.     *)
(***************************************************************************)
LinkPaths ==
    { [dir |-> "A", base |-> "p1", aux |-> FALSE],
      [dir |-> "A", base |-> "p2", aux |-> FALSE],
      [dir |-> "B", base |-> "p1", aux |-> FALSE] }

\* f + '.aux.xml'
faux(f) == [f EXCEPT !.aux = TRUE]

\* os.path.basename
basename(f) == [base |-> f.base, aux |-> f.aux]

LinkNames == {basename(f) : f \in LinkPaths} \cup {basename(faux(f)) : f \in LinkPaths}

\* the files a name of the working directory may link to
TargetsOf(n) == {f \in LinkPaths \cup {faux(g) : g \in LinkPaths} : basename(f) = n}

\* the working directories: some names present, each a link to a file
WorkDirs ==
    UNION { {c \in [N -> LinkPaths \cup {faux(g) : g \in LinkPaths}] :
                \A n \in N : c[n] \in TargetsOf(n)} : N \in SUBSET LinkNames }

\* os.symlink(f, name) and os.link(f, name) where they succeed
with_link(c, f) ==
    [n \in DOMAIN c \cup {basename(f)} |-> IF n = basename(f) THEN f ELSE c[n]]

\* a mutant of link: no try/except, the error of an existing target is raised
link_raise(c, f, hard, sc) ==
    IF basename(f) \in DOMAIN c
      THEN [cwd |-> c, swallowed |-> FALSE, raised |-> TRUE]
      ELSE LET c1 == with_link(c, f)
           IN  IF f \notin sc
                 THEN [cwd |-> c1, swallowed |-> FALSE, raised |-> hard]
                 ELSE IF basename(faux(f)) \in DOMAIN c1
                        THEN [cwd |-> c1, swallowed |-> FALSE, raised |-> TRUE]
                        ELSE [cwd |-> with_link(c1, faux(f)), swallowed |-> FALSE,
                              raised |-> FALSE]

\* link(f, hard) in working directory c, sc the products whose sidecar is a
\* file: both calls of a mode are in one try, and except: pass ends it.
\* os.link fails on a missing source (the sidecar) or an existing target,
\* os.symlink on an existing target.
link(c, f, hard, sc) ==
    IF basename(f) \in DOMAIN c
      THEN [cwd |-> c, swallowed |-> TRUE, raised |-> FALSE]
      ELSE LET c1 == with_link(c, f)
           IN  IF f \notin sc
                 THEN [cwd |-> c1, swallowed |-> hard, raised |-> FALSE]
                 ELSE IF basename(faux(f)) \in DOMAIN c1
                        THEN [cwd |-> c1, swallowed |-> TRUE, raised |-> FALSE]
                        ELSE [cwd |-> with_link(c1, faux(f)), swallowed |-> FALSE,
                              raised |-> FALSE]

\* createlinks' loops over dates, sensors, tiles and products, from the k-th
\* product file on; n counts the errors link() swallowed
RECURSIVE createlinks(_, _, _, _, _, _)
createlinks(c, files, k, hard, sc, n) ==
    IF k > Len(files) THEN [cwd |-> c, swallowed |-> n, raised |-> FALSE]
    ELSE LET r == link(c, files[k], hard, sc)
         IN  IF r.raised
               THEN [cwd |-> r.cwd, swallowed |-> n, raised |-> TRUE]
               ELSE createlinks(r.cwd, files, k + 1, hard, sc,
                                IF r.swallowed THEN n + 1 ELSE n)

LinkIdle == linkfiles = <<>> /\ sidecars = {} /\ cwd = EmptyDict /\ hist = <<>>

\* the last two calls
LastTwo(h) == IF Len(h) > 2 THEN SubSeq(h, Len(h) - 1, Len(h)) ELSE h

\* main(): args.command == 'link'
CreateLinks ==
    /\ \E hard \in BOOLEAN :
          LET r == createlinks(cwd, linkfiles, 1, hard, sidecars, 0)
          IN  /\ cwd' = r.cwd
              /\ hist' = LastTwo(Append(hist, [hard |-> hard, before |-> cwd,
                                               swallowed |-> r.swallowed,
                                               raised |-> r.raised]))
    /\ UNCHANGED <<linkfiles, sidecars, invVars, tileVars, dataVars, procVars>>

(***************************************************************************)
(* The specifications.                                                     *)
(***************************************************************************)
\* DataInventory construction over any archive
Init ==
    /\ disk \in [Tiles -> Listings]
    /\ args = NoArgs /\ inv = NoInv /\ listed = <<>>
    /\ TileIdle /\ DataIdle /\ ProcIdle /\ LinkIdle

Next == Construct

Spec == Init /\ [][Next]_vars

\* vector2tiles over any tile layer: a feature's intersection is no larger
\* than the region
InitTiles ==
    /\ grid \in SeqsUpTo(Features, MaxFeatures)
    /\ region_area \in {2, 3}
    /\ coverage = NoCoverage
    /\ InvIdle /\ DataIdle /\ ProcIdle /\ LinkIdle

NextTiles == Vector2Tiles

SpecTiles == InitTiles /\ [][NextTiles]_vars

\* a Data object built over explicit tiles
InitData ==
    /\ dat \in {Data__init__(t, NoDate) : t \in {<<>>, <<"A">>, <<"A", "B">>}}
    /\ ret = NoRet
    /\ InvIdle /\ TileIdle /\ ProcIdle /\ LinkIdle

NextData == DiscoverProducts \/ RecordMosaic \/ Filename \/ GetProducts

SpecData == InitData /\ [][NextData]_vars

\* the process command over any inventory
InitProcess ==
    /\ \E n \in 0..MaxDates :
          pinv \in [n : {n}, products : [1..n -> {{}, {"toaref"}}]]
    /\ proc = ProcIdleRec
    /\ InvIdle /\ TileIdle /\ DataIdle /\ LinkIdle

NextProcess == ProcessBegin \/ ProcessDataset \/ ProcessRaise \/ ProcessEnd

SpecProcess == InitProcess /\ [][NextProcess]_vars

\* the link command in any working directory
InitLink ==
    /\ linkfiles \in InjSeqs(LinkPaths, MaxProducts)
    /\ sidecars \in SUBSET Range(linkfiles)
    /\ cwd \in WorkDirs
    /\ hist = <<>>
    /\ InvIdle /\ TileIdle /\ DataIdle /\ ProcIdle

NextLink == CreateLinks

SpecLink == InitLink /\ [][NextLink]_vars

(***************************************************************************)
(* The claims.                                                             *)
(***************************************************************************)
\* the constructor returned
ConstructedOK == inv.stage = "data" /\ inv.raised = "none"

\* the dates the names of the listings of the given tiles stand for
ListedDates(tiles) ==
    UNION { {strptime(disk[t].names[i]).date : i \in DOMAIN disk[t].names} : t \in tiles }

\* both closed intervals hold of date d
Admitted(d, start_date, end_date, start_day, end_day) ==
    /\ DateLE(start_date, d) /\ DateLE(d, end_date)
    /\ start_day <= d.doy /\ d.doy <= end_day

IsAscending(s) == \A i, j \in DOMAIN s : i < j => DateLT(s[i], s[j])

Day(y, j) == [year |-> y, doy |-> j]

\* C1: once the inventory is constructed, its dates property is the ascending,
\* duplicate-free list of exactly the dates that are listed for at least one
\* of its tiles and lie in the date range and in the day-of-year range.
C1_DatesExact ==
    ConstructedOK =>
        /\ IsAscending(dates(inv))
        /\ Range(dates(inv)) =
              {d \in ListedDates(Range(inv.tiles)) :
                  Admitted(d, inv.start_date, inv.end_date, inv.start_day, inv.end_day)}

\* C1 witness: an inventory over two tiles that share a date, with two or more
\* dates, one listed date filtered out.
C1_Witness ==
    /\ ConstructedOK
    /\ Len(inv.tiles) = 2
    /\ Len(dates(inv)) >= 2
    /\ ListedDates({"A"}) \cap ListedDates({"B"}) # {}
    /\ ListedDates({"A"}) # ListedDates({"B"})
    /\ \E d \in ListedDates(Range(inv.tiles)) : d \notin Range(dates(inv))

\* C2: a listed date is in the inventory iff start_date <= date <= end_date and
\* start_day <= day of year <= end_day, two closed intervals without
\* wrap-around: with 2020-01-01..2020-12-31 and days 1..90, 2020-045 is in and
\* 2020-150 and 2019-020 are out; with start_day > end_day no date is in.
C2_FilterClosedIntervals ==
    ConstructedOK =>
        /\ \A d \in ListedDates(Range(inv.tiles)) :
              d \in Range(dates(inv)) <=>
                 /\ DateLE(inv.start_date, d) /\ DateLE(d, inv.end_date)
                 /\ inv.start_day <= d.doy /\ d.doy <= inv.end_day
        /\ (args.dates = "2020-01-01,2020-12-31" /\ args.days = <<1, 90>>) =>
              /\ Day(2020, 45) \in ListedDates(Range(inv.tiles))
                    => Day(2020, 45) \in Range(dates(inv))
              /\ Day(2020, 150) \notin Range(dates(inv))
              /\ Day(2019, 20) \notin Range(dates(inv))
        /\ (Len(args.days) >= 2 /\ args.days[1] > args.days[2]) => dates(inv) = <<>>

\* C2 witness: the scenario, with the three dates listed and the first day of
\* the day range listed too.
C2_Witness ==
    /\ ConstructedOK
    /\ args.dates = "2020-01-01,2020-12-31" /\ args.days = <<1, 90>>
    /\ {Day(2020, 1), Day(2020, 45), Day(2020, 150), Day(2019, 20)}
          \subseteq ListedDates(Range(inv.tiles))
    /\ dates(inv) = <<Day(2020, 1), Day(2020, 45)>>

\* C3: when one requested tile has no directory and another has dates (every
\* name listed being a date and the day range two fields), construction
\* succeeds and the inventory holds exactly the admitted dates of the tiles
\* that have a directory.
C3_MissingTileTolerated ==
    ( /\ inv.stage \in {"extent", "data"}
      /\ \E t \in Range(args.tiles) : ~disk[t].exists
      /\ \E t \in Range(args.tiles) : disk[t].exists /\ disk[t].names # <<>>
      /\ \A t \in Range(args.tiles) : \A i \in DOMAIN disk[t].names :
            strptime(disk[t].names[i]).ok )
    => /\ ConstructedOK
       /\ Range(dates(inv)) =
             {d \in ListedDates({t \in Range(args.tiles) : disk[t].exists}) :
                 Admitted(d, inv.start_date, inv.end_date, inv.start_day, inv.end_day)}

\* C4: a day range with a bound outside [1,366] or with start > end makes the
\* construction fail in temporal_extent: it is not stored as start_day and
\* end_day, and no tile directory has been listed.
C4_InvalidDayRangeRejected ==
    ( /\ inv.stage # "none"
      /\ Len(args.days) >= 2
      /\ ~(1 <= args.days[1] /\ args.days[1] <= args.days[2] /\ args.days[2] <= 366) )
    => /\ inv.stage = "new" /\ inv.raised # "none"
       /\ listed = <<>>

\* C5: filename(product, tile) returns the path recorded for the product of
\* the tile and fails when there is none; filename(product) returns the
\* mosaic path recorded under product and fails when there is none.
C5_FilenameLookup ==
    ret.op = "filename" =>
        IF ret.tile # "None"
          THEN IF /\ ret.tile \in DOMAIN dat.tiles
                  /\ "products" \in DOMAIN dat.tiles[ret.tile]
                  /\ ret.product \in DOMAIN dat.tiles[ret.tile].products
                 THEN ret.raised = "none"
                      /\ ret.path = dat.tiles[ret.tile].products[ret.product]
                 ELSE ret.raised # "none"
          ELSE IF ret.product \in DOMAIN dat.products
                 THEN ret.raised = "none" /\ ret.path = dat.products[ret.product]
                 ELSE ret.raised # "none"

\* C6: get_products raises for no constructed dataset, whether or not the
\* products of its tiles have been discovered, and returns the sorted,
\* duplicate-free union of the product keys recorded for its tiles.
C6_GetProductsNeverRaises ==
    ret.op = "get_products" =>
        /\ ret.raised = "none"
        /\ ret.names =
              sorted_names(UNION {DOMAIN dat.tiles[t].products :
                                    t \in {u \in DOMAIN dat.tiles :
                                              "products" \in DOMAIN dat.tiles[u]}})

\* C7: when the process command is over, with or without a failure, process
\* has been invoked on the dataset of every date, in ascending order.
C7_FailureDoesNotStopRun ==
    proc.status \in {"completed", "aborted"} =>
        /\ Len(proc.invoked) = pinv.n
        /\ \A i \in 1..pinv.n : proc.invoked[i] = i

\* C8: the second of two createlinks calls in a row in the same mode leaves
\* the working directory as the first left it, and raises no error.
C8_CreatelinksIdempotent ==
    (Len(hist) = 2 /\ hist[1].hard = hist[2].hard) =>
        /\ cwd = hist[2].before
        /\ ~hist[1].raised /\ ~hist[2].raised

\* C8 witness: the first call made links, a sidecar's among them, and the
\* second met an existing target for every product.
C8_Witness ==
    /\ Len(hist) = 2 /\ hist[1].hard = hist[2].hard
    /\ hist[2].before # hist[1].before
    /\ hist[2].swallowed = Len(linkfiles) /\ Len(linkfiles) >= 2
    /\ \E f \in sidecars : /\ basename(faux(f)) \notin DOMAIN hist[1].before
                           /\ basename(faux(f)) \in DOMAIN cwd

\* C9: after createlinks, whatever the working directory held before, every
\* product whose sidecar is on disk (and whose base name no other product
\* shares) has a link named as its sidecar in the working directory.
C9_SidecarsLinked ==
    Len(hist) >= 1 =>
        \A f \in Range(linkfiles) :
            ( /\ f \in sidecars
              /\ \A g \in Range(linkfiles) : basename(g) = basename(f) => g = f )
            => basename(faux(f)) \in DOMAIN cwd

\* the identifier left-padded with zeros to six characters
RECURSIVE PadSix(_)
PadSix(field) == IF Len(field) >= 6 THEN field ELSE PadSix(<<0>> \o field)

\* C10: the map vector2tiles returns has exactly the tiles of non-zero
\* intersection area, each under its identifier padded to six characters.
C10_CoverageKeys ==
    coverage.raised = "none" =>
        /\ DOMAIN coverage.tiles = {PadSix(f.field) : f \in {g \in Range(grid) : g.area # 0}}
        /\ \A k \in DOMAIN coverage.tiles : Len(k) = 6

====
